---- MODULE Spec2Model ----
(***************************************************************************)
(* A model of three parts of creme:                                        *)
(*   - the streaming scalers of creme/preprocessing/scale.py               *)
(*     (StandardScaler, MinMaxScaler, Normalizer),        SpecScale        *)
(*   - the optimiser of creme/optim/vanilla_sgd.py,       SpecSGD          *)
(*   - the conformance checker of creme/utils/estimator_checks.py,         *)
(*                                                        SpecCheck        *)
(*                                                                         *)
(* Numbers.  Python floats are modelled as fixed-point integers: the       *)
(* integer n stands for the real n / Scale, products and quotients are     *)
(* rounded down to the grid.  Feature values of the scalers are measured   *)
(* in the unit in which the scalers' eps (10e-10) is 1.0: that unit is eps *)
(* for MinMaxScaler (x - min and max - min + eps are lengths) and          *)
(* sqrt(eps) for StandardScaler (variance + eps is a squared length).      *)
(* Both transform formulas are homogeneous, so they read in the model      *)
(* exactly as in the code, with eps = 1.0.                                 *)
(***************************************************************************)
EXTENDS Integers, Sequences, FiniteSets, TLC

VARIABLES
    \* ---- check_estimator(model) (estimator_checks.py)
    tags,           \* the classes of creme.base the model is an instance of
    is_supervised,  \* model.is_supervised (a Transformer's attribute)
    heap,           \* the model objects alive: identity -> state
    model,          \* the identity of the caller's model
    model_before,   \* history: the caller's model when check_estimator began
    pc,             \* "next": between checks, "run": in a check, "done"
    ci,             \* position in yield_all_checks(model) of the current check
    executed,       \* history: the checks called so far, in order
    cur,            \* the check's local model (0: None, -1: not a model)
    iter,           \* loop iterations the current check has completed
    result,         \* "running", "passed" or the exception that came out
    failed_at,      \* history: position of the first check that failed (0: none)
    start_state,    \* history: state of the object the current check was given
    last,           \* history: what happened in the last loop iteration
    \* ---- an optimiser and the weights it steps (vanilla_sgd.py)
    learning_rate,  \* Optimizer.learning_rate, set by __init__(lr)
    objects,        \* the dicts alive: identity -> contents
    w,              \* the identity of the caller's weights dict
    g,              \* the gradient of the last call, as its items() in order
    ret,            \* the identity _update_after_pred returned (0: it raised)
    raised,         \* the exception the last call raised ("": none)
    w_before,       \* history: the contents of w when the last call began
    steps,          \* number of calls made so far
    \* ---- a transformer object (scale.py)
    klass,          \* the class of the transformer object
    variances,      \* StandardScaler.variances : key -> Var
    min,            \* MinMaxScaler.min         : key -> Min
    max,            \* MinMaxScaler.max         : key -> Max
    order,          \* Normalizer.order
    seen,           \* history: key -> number of values fit_one passed for it
    op,             \* the last call made on the object
    arg,            \* the observation of the last call
    out,            \* what the last call returned
    prev,           \* the call before the last one: [op, arg, out]
    calls           \* number of calls made so far

scale_vars == <<klass, variances, min, max, order, seen, op, arg, out, prev, calls>>

sgd_vars == <<learning_rate, objects, w, g, ret, raised, w_before, steps>>

check_vars == <<tags, is_supervised, heap, model, model_before, pc, ci, executed,
                cur, iter, result, failed_at, start_state, last>>

vars == <<scale_vars, sgd_vars, check_vars>>

-----------------------------------------------------------------------------
\* Bounds of the model

Scale == 10          \* fixed-point grid: n stands for n / Scale
MaxVal == 1          \* feature values are 0 .. MaxVal (in whole units)
MaxCalls == 3        \* calls made on one transformer object
MaxSteps == 2        \* optimiser steps made on one weights dict
MaxLr == 2           \* learning rates are 0 .. MaxLr tenths

Keys == {"a", "b"}
Vals == {v * Scale : v \in 0..MaxVal}

\* A mapping with no entry (an empty dict)
EmptyMap == [k \in {} |-> 0]

\* The observations: dicts from some of the keys to values
Observations == UNION {[S -> Vals] : S \in SUBSET Keys}

-----------------------------------------------------------------------------
\* Float arithmetic on the fixed-point grid

Abs(a) == IF a < 0 THEN -a ELSE a

Max2(a, b) == IF a >= b THEN a ELSE b

FMul(a, b) == (a * b) \div Scale

FDiv(a, b) == (a * Scale) \div b

Isqrt(n) == CHOOSE r \in 0..n : r * r <= n /\ (r + 1) * (r + 1) > n

\* a ** 0.5
FSqrt(a) == Isqrt(a * Scale)

RECURSIVE SumOver(_, _)
\* sum of f[k] for k in S
SumOver(f, S) ==
    IF S = {} THEN 0
    ELSE LET k == CHOOSE k \in S : TRUE
         IN  f[k] + SumOver(f, S \ {k})

-----------------------------------------------------------------------------
\* The running statistics of creme.stats (Mean inside Var, Min, Max)

\* stats.Var(): Welford's accumulator, ddof = 1
Var_init == [n |-> 0, mean |-> 0, sos |-> 0]

Var_update(v, x) ==
    LET n1 == v.n + 1
        mean1 == v.mean + ((x - v.mean) \div n1)
    IN  [n |-> n1, mean |-> mean1, sos |-> v.sos + FMul(x - v.mean, x - mean1)]

Var_mean_get(v) == v.mean

Var_get(v) == v.sos \div Max2(1, v.n - 1)

\* stats.Min(): seeded by the first value; before that get() is the
\* zero statistic
Min_init == [seeded |-> FALSE, value |-> 0]

Min_update(m, x) ==
    IF ~m.seeded \/ x < m.value THEN [seeded |-> TRUE, value |-> x] ELSE m

Min_get(m) == m.value

\* stats.Max()
Max_init == [seeded |-> FALSE, value |-> 0]

Max_update(m, x) ==
    IF ~m.seeded \/ x > m.value THEN [seeded |-> TRUE, value |-> x] ELSE m

Max_get(m) == m.value

-----------------------------------------------------------------------------
\* collections.defaultdict

\* d[k] read for every k of ks: a missing key is inserted with the
\* factory's value (defaultdict.__missing__)
Touch(d, ks, factory) ==
    [k \in DOMAIN d \cup ks |-> IF k \in DOMAIN d THEN d[k] ELSE factory]

\* the value d[k] reads
Lookup(d, k, factory) == IF k \in DOMAIN d THEN d[k] ELSE factory

-----------------------------------------------------------------------------
\* The scalers

eps == Scale         \* self.eps = 10e-10, 1.0 in the model's unit

\* StandardScaler.fit_one: self.variances[i].update(xi) for every item
StandardScaler_fit_state(vs, x) ==
    [k \in DOMAIN vs \cup DOMAIN x |->
        IF k \in DOMAIN x THEN Var_update(Lookup(vs, k, Var_init), x[k])
        ELSE vs[k]]

\* StandardScaler.transform_one, the dict it returns
StandardScaler_transform_value(vs, x) ==
    [k \in DOMAIN x |->
        LET v == Lookup(vs, k, Var_init)
        IN  FDiv(x[k] - Var_mean_get(v), FSqrt(Var_get(v) + eps))]

\* a transform_one that also fits: it updates the statistics it reads
StandardScaler_transform_state_fitting(vs, x) ==
    [k \in DOMAIN vs \cup DOMAIN x |->
        IF k \in DOMAIN x THEN Var_update(Lookup(vs, k, Var_init), x[k])
        ELSE vs[k]]

\* StandardScaler.transform_one, what it leaves in self.variances
StandardScaler_transform_state(vs, x) == Touch(vs, DOMAIN x, Var_init)

\* MinMaxScaler.fit_one
MinMaxScaler_fit_min(mn, x) ==
    [k \in DOMAIN mn \cup DOMAIN x |->
        IF k \in DOMAIN x THEN Min_update(Lookup(mn, k, Min_init), x[k])
        ELSE mn[k]]

MinMaxScaler_fit_max(mx, x) ==
    [k \in DOMAIN mx \cup DOMAIN x |->
        IF k \in DOMAIN x THEN Max_update(Lookup(mx, k, Max_init), x[k])
        ELSE mx[k]]

\* a denominator that forgets to subtract the minimum
MinMaxScaler_denominator_no_min(mn, mx, k) ==
    Max_get(Lookup(mx, k, Max_init)) + eps

\* the denominator of MinMaxScaler.transform_one for key k
MinMaxScaler_denominator(mn, mx, k) ==
    Max_get(Lookup(mx, k, Max_init)) - Min_get(Lookup(mn, k, Min_init)) + eps

\* MinMaxScaler.transform_one, the dict it returns
MinMaxScaler_transform_value(mn, mx, x) ==
    [k \in DOMAIN x |->
        FDiv(x[k] - Min_get(Lookup(mn, k, Min_init)),
             MinMaxScaler_denominator(mn, mx, k))]

\* utils.norm(x, order): the order-p norm of the values of x
norm(x, p) ==
    IF p = 1 THEN SumOver([k \in DOMAIN x |-> Abs(x[k])], DOMAIN x)
    ELSE Isqrt(SumOver([k \in DOMAIN x |-> x[k] * x[k]], DOMAIN x))

\* Normalizer.transform_one: xi / norm raises ZeroDivisionError when the
\* norm is zero and x has an item
Normalizer_transform(x, p) ==
    LET nrm == norm(x, p)
    IN  IF DOMAIN x # {} /\ nrm = 0
        THEN [raised |-> "ZeroDivisionError", value |-> EmptyMap]
        ELSE [raised |-> "", value |-> [k \in DOMAIN x |-> FDiv(x[k], nrm)]]

Returned(v) == [raised |-> "", value |-> v]

-----------------------------------------------------------------------------
\* One transformer object and the calls made on it

\* the state of the parts a specification does not exercise
SGDIdle ==
    /\ learning_rate = 0
    /\ objects = <<EmptyMap>>
    /\ w = 1
    /\ g = <<>>
    /\ ret = 0
    /\ raised = ""
    /\ w_before = EmptyMap
    /\ steps = 0

NoPrediction == [is_dict |-> FALSE, items |-> EmptyMap]

NoIteration ==
    [check |-> "", ret |-> "", x_changed |-> FALSE, y_changed |-> FALSE,
     y_pred |-> NoPrediction, failure |-> "", failed |-> ""]

CheckIdle ==
    /\ tags = {}
    /\ is_supervised = FALSE
    /\ heap = [r \in {1} |-> [nfit |-> 0]]
    /\ model = 1
    /\ model_before = [nfit |-> 0]
    /\ pc = "done"
    /\ ci = 1
    /\ executed = <<>>
    /\ cur = 0
    /\ iter = 0
    /\ result = "passed"
    /\ failed_at = 0
    /\ start_state = [nfit |-> 0]
    /\ last = NoIteration

ScaleIdle ==
    /\ klass = "Normalizer"
    /\ variances = EmptyMap
    /\ min = EmptyMap
    /\ max = EmptyMap
    /\ order = 2
    /\ seen = [k \in Keys |-> 0]
    /\ op = "init"
    /\ arg = EmptyMap
    /\ out = [raised |-> "", value |-> EmptyMap]
    /\ prev = [op |-> "init", arg |-> EmptyMap, out |-> [raised |-> "", value |-> EmptyMap]]
    /\ calls = 0

NoCall == [op |-> "init", arg |-> EmptyMap, out |-> Returned(EmptyMap)]

Record(o, x, r) ==
    /\ op' = o
    /\ arg' = x
    /\ out' = r
    /\ prev' = [op |-> op, arg |-> arg, out |-> out]
    /\ calls' = calls + 1

InitScale ==
    /\ klass \in {"StandardScaler", "MinMaxScaler", "Normalizer"}
    /\ variances = EmptyMap
    /\ min = EmptyMap
    /\ max = EmptyMap
    /\ order \in (IF klass = "Normalizer" THEN {1, 2} ELSE {2})
    /\ seen = [k \in Keys |-> 0]
    /\ op = "init"
    /\ arg = EmptyMap
    /\ out = Returned(EmptyMap)
    /\ prev = NoCall
    /\ calls = 0
    /\ SGDIdle
    /\ CheckIdle

StandardScaler_fit_one(x) ==
    /\ klass = "StandardScaler"
    /\ calls < MaxCalls
    /\ variances' = StandardScaler_fit_state(variances, x)
    /\ seen' = [k \in Keys |-> IF k \in DOMAIN x THEN seen[k] + 1 ELSE seen[k]]
    /\ Record("fit_one", x, Returned(EmptyMap))
    /\ UNCHANGED <<klass, min, max, order>>
    /\ UNCHANGED <<sgd_vars, check_vars>>

StandardScaler_transform_one(x) ==
    /\ klass = "StandardScaler"
    /\ calls < MaxCalls
    /\ variances' = StandardScaler_transform_state(variances, x)
    /\ Record("transform_one", x, Returned(StandardScaler_transform_value(variances, x)))
    /\ UNCHANGED <<klass, min, max, order, seen>>
    /\ UNCHANGED <<sgd_vars, check_vars>>

MinMaxScaler_fit_one(x) ==
    /\ klass = "MinMaxScaler"
    /\ calls < MaxCalls
    /\ min' = MinMaxScaler_fit_min(min, x)
    /\ max' = MinMaxScaler_fit_max(max, x)
    /\ seen' = [k \in Keys |-> IF k \in DOMAIN x THEN seen[k] + 1 ELSE seen[k]]
    /\ Record("fit_one", x, Returned(EmptyMap))
    /\ UNCHANGED <<klass, variances, order>>
    /\ UNCHANGED <<sgd_vars, check_vars>>

MinMaxScaler_transform_one(x) ==
    /\ klass = "MinMaxScaler"
    /\ calls < MaxCalls
    /\ min' = Touch(min, DOMAIN x, Min_init)
    /\ max' = Touch(max, DOMAIN x, Max_init)
    /\ Record("transform_one", x, Returned(MinMaxScaler_transform_value(min, max, x)))
    /\ UNCHANGED <<klass, variances, order, seen>>
    /\ UNCHANGED <<sgd_vars, check_vars>>

Normalizer_transform_one(x) ==
    /\ klass = "Normalizer"
    /\ calls < MaxCalls
    /\ Record("transform_one", x, Normalizer_transform(x, order))
    /\ UNCHANGED <<klass, variances, min, max, order, seen>>
    /\ UNCHANGED <<sgd_vars, check_vars>>

NextScale ==
    \E x \in Observations :
        \/ StandardScaler_fit_one(x)
        \/ StandardScaler_transform_one(x)
        \/ MinMaxScaler_fit_one(x)
        \/ MinMaxScaler_transform_one(x)
        \/ Normalizer_transform_one(x)

SpecScale == InitScale /\ [][NextScale]_vars

\* C1: transform_one of StandardScaler and of MinMaxScaler never changes
\* the per-key aggregate maps (their key sets and every aggregate), also
\* for observations whose keys were never passed to fit_one.
C1_TransformLeavesStateAlone ==
    [][op' = "transform_one" =>
          (variances' = variances /\ min' = min /\ max' = max)]_vars

\* C8: two transform_one calls in a row on the same observation, with no
\* fit_one in between, return the same thing, for all three scalers and
\* also for keys never fitted.
C8_TransformTwiceSame ==
    (op = "transform_one" /\ prev.op = "transform_one" /\ arg = prev.arg)
        => out = prev.out

\* the second of two transforms of one observation with a key never fitted
C8_Witness ==
    /\ klass = "StandardScaler"
    /\ op = "transform_one" /\ prev.op = "transform_one" /\ arg = prev.arg
    /\ \E k \in DOMAIN arg : seen[k] = 0 /\ arg[k] # 0
    /\ out = prev.out

\* the value 0 up to the resolution of the grid
ApproxZero(v) == v = 0

-----------------------------------------------------------------------------
\* VanillaSGD (vanilla_sgd.py).  Weights are counted in 1 / Scale^2,
\* gradients and the learning rate in 1 / Scale, so that
\* learning_rate * gi is exact.

WKeys == {0, 1}
WVals == {0, Scale * Scale}
GVals == {-Scale, 2 * Scale}

\* the sequences of distinct items a gradient dict can hold
Gradients ==
    {s \in UNION {[1..n -> WKeys \X GVals] : n \in 0..Cardinality(WKeys)} :
        \A i, j \in DOMAIN s : i # j => s[i][1] # s[j][1]}

GKeys(items) == {items[i][1] : i \in DOMAIN items}

GVal(items, k) == items[CHOOSE i \in DOMAIN items : items[i][1] = k][2]

\* Optimizer.__init__(lr), reached by super().__init__(lr)
Optimizer_init(lr) == lr

RECURSIVE update_loop(_, _, _)
\* for i, gi in g.items(): w[i] -= self.learning_rate * gi
\* (w[i] on a dict without the key i raises KeyError and ends the loop)
update_loop(wd, items, lr) ==
    IF items = <<>> THEN [w |-> wd, raised |-> ""]
    ELSE LET i == items[1][1]
             gi == items[1][2]
         IN  IF i \notin DOMAIN wd THEN [w |-> wd, raised |-> "KeyError"]
             ELSE update_loop([wd EXCEPT ![i] = @ - lr * gi], Tail(items), lr)

\* a step that works on a copy of w and returns the copy
VanillaSGD_update_after_pred_copy(objs, wid, items, lr) ==
    LET r == update_loop(objs[wid], items, lr)
    IN  [objects |-> Append(objs, r.w),
         ret |-> IF r.raised = "" THEN Len(objs) + 1 ELSE 0,
         raised |-> r.raised]

\* VanillaSGD._update_after_pred(w, g): the dicts afterwards, the identity
\* returned and the exception raised
VanillaSGD_update_after_pred(objs, wid, items, lr) ==
    LET r == update_loop(objs[wid], items, lr)
    IN  [objects |-> [objs EXCEPT ![wid] = r.w],
         ret |-> IF r.raised = "" THEN wid ELSE 0,
         raised |-> r.raised]

InitSGD ==
    /\ learning_rate \in {Optimizer_init(lr) : lr \in 0..MaxLr}
    /\ objects \in {<<d>> : d \in UNION {[S -> WVals] : S \in SUBSET WKeys}}
    /\ w = 1
    /\ g = <<>>
    /\ ret = 0
    /\ raised = ""
    /\ w_before = objects[1]
    /\ steps = 0
    /\ ScaleIdle
    /\ CheckIdle

update_after_pred(items) ==
    /\ steps < MaxSteps
    /\ LET r == VanillaSGD_update_after_pred(objects, w, items, learning_rate)
       IN  /\ objects' = r.objects
           /\ ret' = r.ret
           /\ raised' = r.raised
    /\ g' = items
    /\ w_before' = objects[w]
    /\ steps' = steps + 1
    /\ UNCHANGED <<learning_rate, w>>
    /\ UNCHANGED <<scale_vars, check_vars>>

NextSGD == \E items \in Gradients : update_after_pred(items)

SpecSGD == InitSGD /\ [][NextSGD]_vars

\* C2: a step on weights w and a gradient g whose keys are all in w
\* subtracts learning_rate * g[k] from w[k] for every key k of g, leaves
\* the other keys of w and the key set of w as they were, and returns the
\* very dict it was given.
C2_StepInPlace ==
    (steps > 0 /\ GKeys(g) \subseteq DOMAIN w_before) =>
        /\ raised = ""
        /\ ret = w
        /\ DOMAIN objects[w] = DOMAIN w_before
        /\ \A k \in GKeys(g) :
              objects[w][k] = w_before[k] - learning_rate * GVal(g, k)
        /\ \A k \in DOMAIN w_before \ GKeys(g) : objects[w][k] = w_before[k]

\* weights {0: 1.0, 1: ..}, gradient {0: 2.0}, lr 0.1: w[0] becomes 0.8
C2_Witness ==
    /\ steps > 0
    /\ learning_rate = 1
    /\ DOMAIN w_before = {0, 1}
    /\ w_before[0] = Scale * Scale
    /\ g = << <<0, 2 * Scale>> >>
    /\ ret = w
    /\ objects[w][0] = Scale * Scale - 2 * Scale
    /\ objects[w][1] = w_before[1]

-----------------------------------------------------------------------------
\* The conformance checker (estimator_checks.py)

n_observations == 20     \* n_observations=20 of the three loop checks
RelTolInv == 1000000000  \* 1 / rel_tol of math.isclose (rel_tol = 1e-09)

\* The sets of classes a model can be an instance of: MultiClassClassifiers
\* are BinaryClassifiers, which are Classifiers
TagSets ==
    {t \in SUBSET {"Classifier", "BinaryClassifier", "MultiClassClassifier",
                   "Regressor", "Transformer", "Clusterer"} :
        /\ "MultiClassClassifier" \in t => "BinaryClassifier" \in t
        /\ "BinaryClassifier" \in t => "Classifier" \in t}

\* make_random_targets: the kind of target generated for the model;
\* with no branch taken random_func stays None and calling it raises
make_random_targets(t, supervised) ==
    IF "Regressor" \in t THEN "float"
    ELSE IF "MultiClassClassifier" \in t THEN "abcd"
    ELSE IF "BinaryClassifier" \in t THEN "bool"
    ELSE IF "Transformer" \in t THEN (IF supervised THEN "float" ELSE "None")
    ELSE IF "Clusterer" \in t THEN "0123"
    ELSE "TypeError"

\* a dispatch that forgets the test `not isinstance(model, MultiClassClassifier)`
yield_all_checks_no_multi_test(t) ==
    <<"check_fit_one">>
    \o (IF "Classifier" \in t THEN <<"check_predict_proba_one">> ELSE <<>>)
    \o (IF "BinaryClassifier" \in t
        THEN <<"check_better_than_dummy_binary", "check_predict_proba_one_binary">>
        ELSE <<>>)
    \o (IF "MultiClassClassifier" \in t
        THEN <<"check_better_than_dummy_multi">> ELSE <<>>)
    \o (IF "Regressor" \in t
        THEN <<"check_better_than_dummy_regression">> ELSE <<>>)

\* yield_all_checks(model): the checks in the order they are yielded
yield_all_checks(t) ==
    <<"check_fit_one">>
    \o (IF "Classifier" \in t THEN <<"check_predict_proba_one">> ELSE <<>>)
    \o (IF "BinaryClassifier" \in t
        THEN <<"check_better_than_dummy_binary">>
             \o (IF "MultiClassClassifier" \notin t
                 THEN <<"check_predict_proba_one_binary">> ELSE <<>>)
        ELSE <<>>)
    \o (IF "MultiClassClassifier" \in t
        THEN <<"check_better_than_dummy_multi">> ELSE <<>>)
    \o (IF "Regressor" \in t
        THEN <<"check_better_than_dummy_regression">> ELSE <<>>)

\* the number of iterations of a check's loop: the observations generated,
\* or the elements of the itertools.product of a baseline check
Iterations(check) ==
    CASE check = "check_better_than_dummy_binary" -> 2
      [] check = "check_better_than_dummy_multi" -> 2
      [] check = "check_better_than_dummy_regression" -> 1
      [] OTHER -> n_observations

\* ---- objects

FreshId(h) == CHOOSE r \in 1..(Cardinality(DOMAIN h) + 1) : r \notin DOMAIN h

\* the objects still referenced
Collect(h, roots) == [r \in DOMAIN h \cap roots |-> h[r]]

\* no copy at all: the object itself
deepcopy_alias(h, r) == [heap |-> h, ref |-> r]

\* copy.deepcopy(obj) of a model object: a new object in the same state
deepcopy(h, r) ==
    LET id == FreshId(h)
    IN  [heap |-> [q \in DOMAIN h \cup {id} |-> IF q = id THEN h[r] ELSE h[q]],
         ref |-> id]

\* ---- the model under test

\* what a fit_one can do: return self, another instance of its class (here
\* a copy of self), None or something that is no model; change the caller's
\* x or leave it.  The
\* targets generated are floats, strings, booleans or None, which no call
\* can change.
FitBehaviours ==
    [ret : {"self", "same_class", "not_model", "None"}, mutates_x : BOOLEAN]

\* model.fit_one(x, y) on the object r: the object has learnt one more
\* observation; the reference returned
fit_one(h, r, b) ==
    LET h1 == [h EXCEPT ![r].nfit = @ + 1]
        id == FreshId(h1)
    IN  CASE b.ret = "self" -> [heap |-> h1, ref |-> r]
          [] b.ret = "same_class" ->
                 [heap |-> [q \in DOMAIN h1 \cup {id} |->
                               IF q = id THEN h1[r] ELSE h1[q]],
                  ref |-> id]
          [] b.ret = "None" -> [heap |-> h1, ref |-> 0]
          [] OTHER -> [heap |-> h1, ref |-> -1]

\* what predict_proba_one can return: a dict of label -> probability, or
\* something else (here a list)
Dict(f) == [is_dict |-> TRUE, items |-> f]

Predictions ==
    { Dict([k \in {"True", "False"} |-> IF k = "True" THEN Scale - 4 ELSE 4]),
      Dict([k \in {"True", "False"} |-> IF k = "True" THEN Scale - 4 ELSE 6]),
      Dict([k \in {"True", "False"} |-> IF k = "True" THEN Scale + 5 ELSE -5]),
      Dict([k \in {"True"} |-> Scale]),
      Dict([k \in {"a", "b", "c"} |-> IF k = "c" THEN Scale - 6 ELSE 3]),
      Dict(EmptyMap),
      [is_dict |-> FALSE, items |-> [k \in {"0", "1"} |-> Scale \div 2]] }

\* the training stream of a baseline check has this many observations
StreamLen == 2

\* model_selection.online_score(X_y, model, metric): the model learns the
\* whole stream
online_score(h, r) == [h EXCEPT ![r].nfit = @ + StreamLen]

\* ---- the assertions

\* isinstance(model, klass) for the reference fit_one returned: the model
\* objects of the heap are all instances of klass
isinstance_klass(h, r) == r \in DOMAIN h

\* math.isclose(a, b)
isclose(a, b) == Abs(a - b) <= Max2(Abs(a), Abs(b)) \div RelTolInv

\* sum(y_pred.values())
sum_values(p) == SumOver(p.items, DOMAIN p.items)

\* key in y_pred (for a list: some element equal to the key, True == 1.0
\* and False == 0.0)
contains(p, key) ==
    IF p.is_dict THEN key \in DOMAIN p.items
    ELSE \E k \in DOMAIN p.items :
            p.items[k] = (IF key = "True" THEN Scale ELSE 0)

\* check_fit_one without its assertion on x
check_fit_one_asserts_no_x(is_klass, x_changed, y_changed) ==
    IF ~is_klass THEN "isinstance(model, klass)"
    ELSE IF y_changed THEN "y == yy"
    ELSE ""

\* the assertions of one iteration of check_fit_one, in order: the first
\* that fails, or ""
check_fit_one_asserts(is_klass, x_changed, y_changed) ==
    IF ~is_klass THEN "isinstance(model, klass)"
    ELSE IF x_changed THEN "x == xx"
    ELSE IF y_changed THEN "y == yy"
    ELSE ""

\* check_predict_proba_one without its assertion on the sum
check_predict_proba_one_asserts_no_sum(p, x_changed, y_changed) ==
    IF ~p.is_dict THEN "isinstance(y_pred, dict)"
    ELSE IF \E k \in DOMAIN p.items : ~(0 <= p.items[k] /\ p.items[k] <= Scale)
         THEN "0.0 <= proba <= 1.0"
    ELSE IF x_changed THEN "x == xx"
    ELSE IF y_changed THEN "y == yy"
    ELSE ""

\* the assertions of one iteration of check_predict_proba_one
check_predict_proba_one_asserts(p, x_changed, y_changed) ==
    IF ~p.is_dict THEN "isinstance(y_pred, dict)"
    ELSE IF ~isclose(sum_values(p), Scale) THEN "math.isclose(sum(y_pred.values()), 1.0)"
    ELSE IF \E k \in DOMAIN p.items : ~(0 <= p.items[k] /\ p.items[k] <= Scale)
         THEN "0.0 <= proba <= 1.0"
    ELSE IF x_changed THEN "x == xx"
    ELSE IF y_changed THEN "y == yy"
    ELSE ""

\* the assertions of one iteration of check_predict_proba_one_binary
check_predict_proba_one_binary_asserts(p) ==
    IF Cardinality(DOMAIN p.items) # 2 THEN "len(y_pred) == 2"
    ELSE IF ~contains(p, "True") THEN "True in y_pred"
    ELSE IF ~contains(p, "False") THEN "False in y_pred"
    ELSE ""

\* the assertion of check_a_better_than_b
check_a_better_than_b_asserts(a_better) ==
    IF a_better THEN "" ELSE "metric_a.get() better than metric_b.get()"

\* ---- check_estimator

\* a check_estimator that catches the exception of a check and goes on
\* with the next check
check_estimator_next_catching(c, n, failure, finished) ==
    IF failure = "" /\ ~finished THEN [pc |-> "run", ci |-> c, result |-> "running"]
    ELSE IF c = n
    THEN [pc |-> "done", ci |-> c,
          result |-> IF failure # "" THEN failure ELSE "passed"]
    ELSE [pc |-> "next", ci |-> c + 1, result |-> "running"]

\* where check_estimator goes after a loop iteration of check number c of
\* n: an exception leaves the check and check_estimator at once; a check
\* that returns is followed by the next one
check_estimator_next(c, n, failure, finished) ==
    IF failure # "" THEN [pc |-> "done", ci |-> c, result |-> failure]
    ELSE IF ~finished THEN [pc |-> "run", ci |-> c, result |-> "running"]
    ELSE IF c = n THEN [pc |-> "done", ci |-> c, result |-> "passed"]
    ELSE [pc |-> "next", ci |-> c + 1, result |-> "running"]

MaxPretrained == 1   \* observations the caller's model has learnt before

InitCheck ==
    /\ tags \in TagSets
    /\ is_supervised \in (IF "Transformer" \in tags THEN BOOLEAN ELSE {FALSE})
    /\ model = 1
    /\ heap \in {[r \in {1} |-> [nfit |-> n]] : n \in 0..MaxPretrained}
    /\ model_before = heap[model]
    /\ pc = "next"
    /\ ci = 1
    /\ executed = <<>>
    /\ cur = 0
    /\ iter = 0
    /\ result = "running"
    /\ failed_at = 0
    /\ start_state = heap[model]
    /\ last = NoIteration
    /\ ScaleIdle
    /\ SGDIdle

Checks == yield_all_checks(tags)

\* check(copy.deepcopy(model)) for the next check yielded
call_check ==
    /\ pc = "next"
    /\ ci <= Len(Checks)
    /\ LET c == deepcopy(heap, model)
       IN  /\ heap' = c.heap
           /\ cur' = c.ref
           /\ start_state' = c.heap[c.ref]
    /\ executed' = Append(executed, Checks[ci])
    /\ iter' = 0
    /\ pc' = "run"
    /\ UNCHANGED <<tags, is_supervised, model, model_before, ci, result,
                   failed_at, last>>
    /\ UNCHANGED <<scale_vars, sgd_vars>>

\* the end of a loop iteration that left the objects h, the local model c
\* and the exception `failure` ("": none), and did what l records
Advance(h, c, failure, l) ==
    LET nx == check_estimator_next(ci, Len(Checks), failure,
                                   iter + 1 = Iterations(Checks[ci]))
    IN  /\ pc' = nx.pc
        /\ ci' = nx.ci
        /\ result' = nx.result
        /\ iter' = IF nx.pc = "run" THEN iter + 1 ELSE 0
        /\ cur' = IF nx.pc = "run" THEN c ELSE 0
        /\ heap' = Collect(h, IF nx.pc = "run" THEN {model, c} ELSE {model})
        /\ failed_at' = IF failure # "" /\ failed_at = 0 THEN ci ELSE failed_at
        /\ last' = [l EXCEPT !.check = Checks[ci], !.failure = failure]
        /\ UNCHANGED <<tags, is_supervised, model, model_before, executed,
                       start_state>>
        /\ UNCHANGED <<scale_vars, sgd_vars>>

Running(check) == pc = "run" /\ Checks[ci] = check

Exception(e) == IF e = "" THEN "" ELSE "AssertionError"

\* one iteration of the loop of check_fit_one
check_fit_one ==
    /\ Running("check_fit_one")
    /\ IF make_random_targets(tags, is_supervised) = "TypeError"
       THEN Advance(heap, cur, "TypeError", NoIteration)
       ELSE \E b \in FitBehaviours :
              LET r == fit_one(heap, cur, b)
                  a == check_fit_one_asserts(isinstance_klass(r.heap, r.ref),
                                             b.mutates_x, FALSE)
              IN  Advance(r.heap, r.ref, Exception(a),
                          [NoIteration EXCEPT !.ret = b.ret,
                                              !.x_changed = b.mutates_x,
                                              !.failed = a])

\* one iteration of the loop of check_predict_proba_one
check_predict_proba_one ==
    /\ Running("check_predict_proba_one")
    /\ IF make_random_targets(tags, is_supervised) = "TypeError"
       THEN Advance(heap, cur, "TypeError", NoIteration)
       ELSE IF cur \notin DOMAIN heap
       THEN Advance(heap, cur, "AttributeError", NoIteration)
       ELSE \E b \in FitBehaviours :
              LET r == fit_one(heap, cur, b)
              IN  IF r.ref \notin DOMAIN r.heap
                  THEN Advance(r.heap, r.ref, "AttributeError",
                               [NoIteration EXCEPT !.ret = b.ret,
                                                   !.x_changed = b.mutates_x])
                  ELSE \E p \in Predictions, predict_mutates_x \in BOOLEAN :
                         LET xc == b.mutates_x \/ predict_mutates_x
                             a == check_predict_proba_one_asserts(p, xc, FALSE)
                         IN  Advance(r.heap, r.ref, Exception(a),
                                     [NoIteration EXCEPT !.ret = b.ret,
                                                         !.x_changed = xc,
                                                         !.y_pred = p,
                                                         !.failed = a])

\* one iteration of the loop of check_predict_proba_one_binary
check_predict_proba_one_binary ==
    /\ Running("check_predict_proba_one_binary")
    /\ IF cur \notin DOMAIN heap
       THEN Advance(heap, cur, "AttributeError", NoIteration)
       ELSE \E p \in Predictions, b \in FitBehaviours :
              LET r == fit_one(heap, cur, b)
                  a == check_predict_proba_one_binary_asserts(p)
              IN  Advance(r.heap, r.ref, Exception(a),
                          [NoIteration EXCEPT !.ret = b.ret,
                                              !.x_changed = b.mutates_x,
                                              !.y_pred = p,
                                              !.failed = a])

\* one element of the product of a baseline check: check_a_better_than_b
\* on a deep copy of the classifier (or regressor)
check_better_than_dummy ==
    /\ pc = "run"
    /\ Checks[ci] \in {"check_better_than_dummy_binary",
                       "check_better_than_dummy_multi",
                       "check_better_than_dummy_regression"}
    /\ \E a_better \in BOOLEAN :
          LET c == deepcopy(heap, cur)
              a == check_a_better_than_b_asserts(a_better)
          IN  Advance(online_score(c.heap, c.ref), cur, Exception(a),
                      [NoIteration EXCEPT !.failed = a])

NextCheck ==
    \/ call_check
    \/ check_fit_one
    \/ check_predict_proba_one
    \/ check_predict_proba_one_binary
    \/ check_better_than_dummy

SpecCheck == InitCheck /\ [][NextCheck]_vars

IsPrefix(a, b) == Len(a) <= Len(b) /\ a = SubSeq(b, 1, Len(a))

Range(q) == {q[n] : n \in DOMAIN q}

C4_PurityCheck ==
    last.check = "check_fit_one" =>
        /\ (last.x_changed \/ last.y_changed) =>
              /\ last.failure = "AssertionError"
              /\ result = "AssertionError"
              /\ pc = "done"
        /\ last.failed \in {"x == xx", "y == yy"} =>
              (last.x_changed \/ last.y_changed)

\* a fit_one that returned self and changed x: the assertion on x failed
C4_Witness ==
    /\ last.check = "check_fit_one"
    /\ last.ret = "self"
    /\ last.x_changed
    /\ last.failed = "x == xx"
    /\ result = "AssertionError"

\* C5: a fit_one that returns anything but the very model it was called on
\* (None, or another object) makes check_fit_one fail.
\* Stated on the runs in which check_fit_one returns without an exception:
\* its last fit_one then returned self.
C5_MustReturnSelf ==
    (last.check = "check_fit_one" /\ last.failure = "" /\ pc # "run")
        => last.ret = "self"

\* C6: an iteration of check_predict_proba_one passes only if
\* predict_proba_one returned a dict whose values lie in [0, 1] and sum to
\* 1 (within the tolerance, which is below the grid) and x and y are
\* unchanged; a prediction whose values sum to 1.2 fails the check.
C6_ProbabilityCoherence ==
    last.check = "check_predict_proba_one" =>
        /\ last.failure = "" =>
              /\ last.y_pred.is_dict
              /\ \A k \in DOMAIN last.y_pred.items :
                    0 <= last.y_pred.items[k] /\ last.y_pred.items[k] <= Scale
              /\ sum_values(last.y_pred) = Scale
              /\ ~last.x_changed /\ ~last.y_changed
        /\ (last.y_pred.is_dict /\ 10 * sum_values(last.y_pred) = 12 * Scale) =>
              /\ last.failure = "AssertionError"
              /\ result = "AssertionError"
              /\ pc = "done"

\* check_predict_proba_one has passed: all its iterations passed
C6_Witness ==
    /\ last.check = "check_predict_proba_one"
    /\ last.failure = ""
    /\ pc \in {"next", "done"}
    /\ Len(executed) = 2
    /\ sum_values(last.y_pred) = Scale

\* C7: for every set of classes of the model, yield_all_checks yields
\* check_fit_one always and first, check_predict_proba_one iff Classifier,
\* the binary baseline iff BinaryClassifier, the two-entries check iff
\* BinaryClassifier and not MultiClassClassifier, the multi-class baseline
\* iff MultiClassClassifier, the regression baseline iff Regressor, each
\* once, and nothing else.
C7_Dispatch ==
    LET cs == yield_all_checks(tags)
    IN  /\ cs[1] = "check_fit_one"
        /\ "check_predict_proba_one" \in Range(cs) <=> "Classifier" \in tags
        /\ "check_better_than_dummy_binary" \in Range(cs)
              <=> "BinaryClassifier" \in tags
        /\ "check_predict_proba_one_binary" \in Range(cs)
              <=> ("BinaryClassifier" \in tags /\ "MultiClassClassifier" \notin tags)
        /\ "check_better_than_dummy_multi" \in Range(cs)
              <=> "MultiClassClassifier" \in tags
        /\ "check_better_than_dummy_regression" \in Range(cs)
              <=> "Regressor" \in tags
        /\ Range(cs) \subseteq
              {"check_fit_one", "check_predict_proba_one",
               "check_better_than_dummy_binary", "check_predict_proba_one_binary",
               "check_better_than_dummy_multi", "check_better_than_dummy_regression"}
        /\ Cardinality(Range(cs)) = Len(cs)
        /\ Range(executed) \subseteq Range(cs)

\* a binary classifier that is also a regressor has passed all its checks
C7_Witness ==
    /\ pc = "done"
    /\ result = "passed"
    /\ "MultiClassClassifier" \notin tags
    /\ executed = <<"check_fit_one", "check_predict_proba_one",
                    "check_better_than_dummy_binary",
                    "check_predict_proba_one_binary",
                    "check_better_than_dummy_regression">>

\* C10: check_estimator never changes the caller's model: every check is
\* given its own deep copy, in the state the caller's model had at the
\* start, whatever earlier checks did to their copies.
C10_CallerModelUntouched ==
    /\ model \in DOMAIN heap
    /\ heap[model] = model_before
    /\ pc = "run" => (cur # model /\ start_state = model_before)

\* the second check is running on a copy that has learnt, after the first
\* check trained its own copy
C10_Witness ==
    /\ pc = "run"
    /\ Len(executed) = 2
    /\ iter > 0
    /\ cur \in DOMAIN heap
    /\ heap[cur].nfit > model_before.nfit
    /\ heap[model] = model_before

====
